---- MODULE Spec2Model ----
(***************************************************************************)
(* Conway's Game of Life on a toroidal grid: the Universe of src/lib.rs.   *)
(* A Cell is its u8 representation (Dead = 0, Alive = 1); a Vec is a        *)
(* sequence, and Rust's 0-based index i is position i + 1.  A panic         *)
(* (index out of bounds, arithmetic overflow in a build with overflow      *)
(* checks) aborts the program: `panicked` becomes TRUE and nothing runs     *)
(* afterwards.                                                              *)
(***************************************************************************)
EXTENDS Integers, Sequences, FiniteSets, TLC

VARIABLES
  cells,            \* Universe.cells: the current grid storage
  buffer,           \* Universe.buffer: the scratch storage tick writes
  diff,             \* Universe.diff: indices changed by the last tick, -1 = unused
  width,            \* Universe.width
  height,           \* Universe.height
  panicked,         \* TRUE once an operation has panicked
  overflow_checks,  \* the build: TRUE = overflow checks on (debug), FALSE = wrapping (release)
  last,             \* the operation that produced this state, its arguments, and the one before
  ops               \* how many operations have run since new()

vars == <<cells, buffer, diff, width, height, panicked, overflow_checks, last, ops>>

\* ------------------------------------------------------------------ bounds
\* Side of the universe new() builds where two universes are ticked side
\* by side (120 in the source).
TwinSide == 2
\* Largest grid extent and largest pattern centre handed to the anchor
\* arithmetic of insert_pattern.
MaxExtent == 8
MaxCentre == 6
\* Longest pattern text handed to the parser, in characters.
MaxText == 4
\* the side of the universe new() builds in the glider scenario, and the
\* side in the blinker scenario (120 in the source)
GliderSide == 22
BlinkerSide == 6
\* Side of the square grid new() allocates in the specifications that explore
\* every operation (the source's 120, scaled down).
NewSide == 3
\* Largest size handed to set_width / set_height.
MaxSize == 4
\* Largest row / column handed to toggle_cell, set_cells and the insertions.
MaxCoord == 2
\* Longest run of operations explored from new().
MaxOps == 3

\* ------------------------------------------------------------------- cells
Dead == 0
Alive == 1
Sentinel == -1

Sizes == 1..MaxSize
Coords == 0..MaxCoord

\* toggle that can only bring a cell to life
toggle_to_alive(c) == Alive

toggle(c) == IF c = Dead THEN Alive ELSE Dead

Fill(n, v) == [i \in 1..n |-> v]

\* v[i] for a 0-based i
At(v, i) == v[i + 1]

\* ---------------------------------------------------------------- patterns
GliderText ==
  << <<"!", "N", "a", "m", "e", ":", " ", "G", "l", "i", "d", "e", "r">>,
     <<"!", "A", "u", "t", "h", "o", "r", ":", " ", "R", "i", "c", "h", "a", "r", "d", " ", "K", ".", " ", "G", "u", "y">>,
     <<"!", "T", "h", "e", " ", "s", "m", "a", "l", "l", "e", "s", "t", ",", " ", "m", "o", "s", "t", " ", "c", "o", "m", "m", "o", "n", ",", " ", "a", "n", "d", " ", "f", "i", "r", "s", "t", " ", "d", "i", "s", "c", "o", "v", "e", "r", "e", "d", " ", "s", "p", "a", "c", "e", "s", "h", "i", "p", ".">>,
     <<"!", "w", "w", "w", ".", "c", "o", "n", "w", "a", "y", "l", "i", "f", "e", ".", "c", "o", "m", "/", "w", "i", "k", "i", "/", "i", "n", "d", "e", "x", ".", "p", "h", "p", "?", "t", "i", "t", "l", "e", "=", "G", "l", "i", "d", "e", "r">>,
     <<".", "O">>,
     <<".", ".", "O">>,
     <<"O", "O", "O">> >>

PulsarText ==
  << <<"!", "N", "a", "m", "e", ":", " ", "P", "u", "l", "s", "a", "r">>,
     <<"!", "A", "u", "t", "h", "o", "r", ":", " ", "J", "o", "h", "n", " ", "C", "o", "n", "w", "a", "y">>,
     <<"!", "D", "e", "s", "p", "i", "t", "e", " ", "i", "t", "s", " ", "s", "i", "z", "e", ",", " ", "t", "h", "i", "s", " ", "i", "s", " ", "t", "h", "e", " ", "f", "o", "u", "r", "t", "h", " ", "m", "o", "s", "t", " ", "c", "o", "m", "m", "o", "n", " ", "o", "s", "c", "i", "l", "l", "a", "t", "o", "r", " ", "(", "a", "n", "d", " ", "b", "y", " ", "f", "a", "r", " ", "t", "h", "e", " ", "m", "o", "s", "t", " ", "c", "o", "m", "m", "o", "n", " ", "o", "f", " ", "p", "e", "r", "i", "o", "d", " ", "g", "r", "e", "a", "t", "e", "r", " ", "t", "h", "a", "n", " ", "2", ")", ".">>,
     <<"!", "w", "w", "w", ".", "c", "o", "n", "w", "a", "y", "l", "i", "f", "e", ".", "c", "o", "m", "/", "w", "i", "k", "i", "/", "i", "n", "d", "e", "x", ".", "p", "h", "p", "?", "t", "i", "t", "l", "e", "=", "P", "u", "l", "s", "a", "r">>,
     <<".", ".", "O", "O", "O", ".", ".", ".", "O", "O", "O">>,
     <<>>,
     <<"O", ".", ".", ".", ".", "O", ".", "O", ".", ".", ".", ".", "O">>,
     <<"O", ".", ".", ".", ".", "O", ".", "O", ".", ".", ".", ".", "O">>,
     <<"O", ".", ".", ".", ".", "O", ".", "O", ".", ".", ".", ".", "O">>,
     <<".", ".", "O", "O", "O", ".", ".", ".", "O", "O", "O">>,
     <<>>,
     <<".", ".", "O", "O", "O", ".", ".", ".", "O", "O", "O">>,
     <<"O", ".", ".", ".", ".", "O", ".", "O", ".", ".", ".", ".", "O">>,
     <<"O", ".", ".", ".", ".", "O", ".", "O", ".", ".", ".", ".", "O">>,
     <<"O", ".", ".", ".", ".", "O", ".", "O", ".", ".", ".", ".", "O">>,
     <<>>,
     <<".", ".", "O", "O", "O", ".", ".", ".", "O", "O", "O">> >>

\* a line that holds '!' somewhere
contains_bang(l) == \E k \in 1..Len(l) : l[k] = "!"

starts_with_bang(l) == Len(l) > 0 /\ l[1] = "!"

\* the number of bytes of a character in UTF-8: the characters here are
\* ASCII but for "e_acute" (U+00E9)
len_utf8(c) == IF c = "e_acute" THEN 2 ELSE 1

\* char_indices: the byte offset at which character k of l starts, the sum
\* of the lengths of the characters before it (each one byte or two)
char_offset(l, k) ==
  (k - 1) + Cardinality({j \in 1..(k - 1) : len_utf8(l[j]) = 2})

\* the (i, j) of one line's 'O' characters, in char_indices order
LineCells(i, l) ==
  LET ks == SelectSeq([k \in 1..Len(l) |-> k], LAMBDA k : l[k] = "O")
  IN [k \in 1..Len(ks) |-> <<i, char_offset(l, ks[k])>>]

\* str::lines: the text cut at every "\n", a final "\n" opening no line
RECURSIVE lines(_)
lines(text) ==
  IF text = <<>> THEN <<>>
  ELSE LET ends == {k \in 1..Len(text) : text[k] = "\n"}
       IN IF ends = {} THEN <<text>>
          ELSE LET e == CHOOSE k \in ends : \A j \in ends : k <= j
               IN <<SubSeq(text, 1, e - 1)>> \o lines(SubSeq(text, e + 1, Len(text)))

RECURSIVE FlatMapCells(_, _)
FlatMapCells(ls, k) ==
  IF k > Len(ls) THEN <<>>
  ELSE LineCells(k - 1, ls[k]) \o FlatMapCells(ls, k + 1)

Max(a, b) == IF a >= b THEN a ELSE b

\* the fold of (xmax.max(x + 1), ymax.max(y + 1)) over alive[k..], from acc:
\* the largest of acc and every x + 1, and of acc and every y + 1
FoldExtent(alive, k, acc) ==
  LET xs == {acc[1]} \cup {alive[j][1] + 1 : j \in k..Len(alive)}
      ys == {acc[2]} \cup {alive[j][2] + 1 : j \in k..Len(alive)}
  IN <<CHOOSE x \in xs : \A o \in xs : Max(x, o) = x,
       CHOOSE y \in ys : \A o \in ys : Max(y, o) = y>>

\* Pattern::from_str on a text given as its lines, each a sequence of characters
from_str(schema) ==
  LET kept == SelectSeq(schema, LAMBDA l : ~starts_with_bang(l))
      alive_cells == FlatMapCells(kept, 1)
      ext == FoldExtent(alive_cells, 1, <<1, 1>>)
  IN IF alive_cells = <<>>
     THEN [ok |-> FALSE, err |-> schema]
     ELSE [ok |-> TRUE, alive_cells |-> alive_cells,
           width |-> ext[1], height |-> ext[2]]

glider == from_str(GliderText)
pulsar == from_str(PulsarText)

\* ------------------------------------------------------------ the Universe
get_index(w, row, column) == row * w + column

\* neighbor_indices with the north edge clamped where the grid wraps
neighbor_indices_clamped_north(w, h, row, column) ==
  LET north == IF row = 0 THEN 0 ELSE row - 1
      south == IF row = h - 1 THEN 0 ELSE row + 1
      west == IF column = 0 THEN w - 1 ELSE column - 1
      east == IF column = w - 1 THEN 0 ELSE column + 1
  IN << get_index(w, north, west), get_index(w, north, column),
        get_index(w, north, east), get_index(w, row, west),
        get_index(w, row, east), get_index(w, south, west),
        get_index(w, south, column), get_index(w, south, east) >>

\* the eight indices live_neighbor_count reads, in the order it reads them
neighbor_indices(w, h, row, column) ==
  LET north == IF row = 0 THEN h - 1 ELSE row - 1
      south == IF row = h - 1 THEN 0 ELSE row + 1
      west == IF column = 0 THEN w - 1 ELSE column - 1
      east == IF column = w - 1 THEN 0 ELSE column + 1
  IN << get_index(w, north, west), get_index(w, north, column),
        get_index(w, north, east), get_index(w, row, west),
        get_index(w, row, east), get_index(w, south, west),
        get_index(w, south, column), get_index(w, south, east) >>

\* live_neighbor_count without the four diagonal neighbours
live_neighbor_count_orthogonal(c, w, h, row, column) ==
  LET n == neighbor_indices(w, h, row, column)
  IN At(c, n[2]) + At(c, n[4]) + At(c, n[5]) + At(c, n[7])

live_neighbor_count(c, w, h, row, column) ==
  LET n == neighbor_indices(w, h, row, column)
  IN At(c, n[1]) + At(c, n[2]) + At(c, n[3]) + At(c, n[4])
     + At(c, n[5]) + At(c, n[6]) + At(c, n[7]) + At(c, n[8])

\* next_cell without the overpopulation arm
next_cell_no_overpopulation(cell, x) ==
  IF cell = Alive /\ x < 2 THEN Dead
  ELSE IF cell = Dead /\ x = 3 THEN Alive
  ELSE cell

\* the match of tick: the next state of a cell with x live neighbours
next_cell(cell, x) ==
  IF cell = Alive /\ x < 2 THEN Dead
  ELSE IF cell = Alive /\ (x = 2 \/ x = 3) THEN Alive
  ELSE IF cell = Alive /\ x > 3 THEN Dead
  ELSE IF cell = Dead /\ x = 3 THEN Alive
  ELSE cell

\* the guard "(a, b) if a != b" that records a flat index in the diff
changed_no_births(cell, nxt) == cell = Alive /\ nxt = Dead

changed(cell, nxt) == cell # nxt

\* One iteration of tick's inner loop at (row, col); st holds the buffer, the
\* diff and diff_index so far.  Every indexing is bounds-checked, and the
\* first one out of bounds panics.
TickBody(c, w, h, row, col, st) ==
  LET idx == get_index(w, row, col)
      nb == neighbor_indices(w, h, row, col)
  IN IF idx >= Len(c) \/ \E k \in 1..8 : nb[k] >= Len(c)
     THEN [st EXCEPT !.panicked = TRUE]
     ELSE
       LET cell == At(c, idx)
           nxt == next_cell(cell, live_neighbor_count(c, w, h, row, col))
       IN IF changed(cell, nxt) /\ st.diff_index >= Len(st.diff)
          THEN [st EXCEPT !.panicked = TRUE]
          ELSE
            LET df == IF changed(cell, nxt)
                      THEN [st.diff EXCEPT ![st.diff_index + 1] = idx]
                      ELSE st.diff
                di == IF changed(cell, nxt) THEN st.diff_index + 1 ELSE st.diff_index
            IN IF idx >= Len(st.buffer)
               THEN [st EXCEPT !.diff = df, !.diff_index = di, !.panicked = TRUE]
               ELSE [buffer |-> [st.buffer EXCEPT ![idx + 1] = nxt],
                     diff |-> df, diff_index |-> di, panicked |-> FALSE]

\* for col in 0..width
RECURSIVE TickCols(_, _, _, _, _, _)
TickCols(c, w, h, row, col, st) ==
  IF st.panicked \/ col >= w THEN st
  ELSE TickCols(c, w, h, row, col + 1, TickBody(c, w, h, row, col, st))

\* for row in 0..height
RECURSIVE TickRows(_, _, _, _, _)
TickRows(c, w, h, row, st) ==
  IF st.panicked \/ row >= h THEN st
  ELSE TickRows(c, w, h, row + 1, TickCols(c, w, h, row, 0, st))

\* diff_fill resetting the first slot only
diff_fill_first_slot(d) == [i \in 1..Len(d) |-> IF i = 1 THEN Sentinel ELSE d[i]]

\* diff_fill left out: the diff of the last tick is kept
diff_fill_skipped(d) == d

\* the diff buffer as tick prepares it before the scan
diff_fill(d) == Fill(Len(d), Sentinel)

\* tick on a universe (c, b, d, w, h): fill diff with -1, scan, swap
tick_of(c, b, d, w, h) ==
  LET r == TickRows(c, w, h, 0,
                    [buffer |-> b, diff |-> diff_fill(d), diff_index |-> 0,
                     panicked |-> FALSE])
  IN IF r.panicked
     THEN [cells |-> c, buffer |-> r.buffer, diff |-> r.diff, panicked |-> TRUE]
     ELSE [cells |-> r.buffer, buffer |-> c, diff |-> r.diff, panicked |-> FALSE]

StoreAll(c, touched, v) ==
  [i \in 1..Len(c) |-> IF (i - 1) \in touched THEN v ELSE c[i]]

\* the loop "for i in idxs { c[i] = v }": the first i out of bounds panics
\* and leaves the earlier stores done
Store(c, idxs, v) ==
  LET bad == {k \in 1..Len(idxs) : idxs[k] >= Len(c)}
      stop == IF bad = {} THEN Len(idxs) + 1
              ELSE CHOOSE k \in bad : \A j \in bad : k <= j
  IN [cells |-> StoreAll(c, {idxs[k] : k \in 1..(stop - 1)}, v),
      panicked |-> bad # {}]

\* 2^32 mod n, for the u32 arithmetic of insert_pattern
Pow32Mod(n) == ((65536 % n) * (65536 % n)) % n

\* ((t - c) + n) % n in u32: with overflow checks t < c panics; without,
\* t - c wraps to 2^32 - (c - t), and the addition wraps again when it
\* passes 2^32
anchor(t, c, n, checks) ==
  IF t >= c THEN [panicked |-> FALSE, v |-> ((t - c) + n) % n]
  ELSE IF checks THEN [panicked |-> TRUE, v |-> 0]
  ELSE IF n >= c - t THEN [panicked |-> FALSE, v |-> (n - (c - t)) % n]
  ELSE [panicked |-> FALSE,
        v |-> (Pow32Mod(n) + n - ((c - t - n) % n)) % n]

\* the flat index insert_pattern computes for the pattern cell (x, y)
\* at the anchor (row, column)
pattern_index(w, h, row, column, x, y) ==
  get_index(w, (row + x) % w, (column + y) % h)

\* the indices of the bounding box, in the order of the two nested loops
box_indices(p, w, h, row, column) ==
  [k \in 1..(p.width * p.height) |->
     pattern_index(w, h, row, column, (k - 1) \div p.height, (k - 1) % p.height)]

\* the indices of the live cells, in the order of alive_cells
alive_indices(p, w, h, row, column) ==
  [k \in 1..Len(p.alive_cells) |->
     pattern_index(w, h, row, column, p.alive_cells[k][1], p.alive_cells[k][2])]

insert_pattern_of(c, w, h, p, row, column, checks) ==
  LET center == <<p.width \div 2, p.height \div 2>>
      r == anchor(row, center[1], w, checks)
      cl == anchor(column, center[2], h, checks)
  IN IF r.panicked \/ cl.panicked THEN [cells |-> c, panicked |-> TRUE]
     ELSE LET cleared == Store(c, box_indices(p, w, h, r.v, cl.v), Dead)
          IN IF cleared.panicked THEN cleared
             ELSE Store(cleared.cells, alive_indices(p, w, h, r.v, cl.v), Alive)

\* the outcomes of random(w, h) the model draws from
random(w, h) ==
  { Fill(w * h, Dead), Fill(w * h, Alive),
    [i \in 1..(w * h) |-> IF i % 2 = 0 THEN Alive ELSE Dead],
    [i \in 1..(w * h) |-> IF i % 3 = 1 THEN Alive ELSE Dead] }

\* the lists the model hands to set_cells: empty, one cell, three in a row
SetCellsInputs ==
  {<<>>} \cup { <<<<r, c>>>> : r \in Coords, c \in Coords }
  \cup { << <<r, 0>>, <<r, 1>>, <<r, 2>> >> : r \in Coords }

\* ------------------------------------------------------------------ actions
\* Each operation as an action on the Universe; `last` and `ops` are set by
\* the specification that runs it.
Op(name, arg, prev) == [op |-> name, arg |-> arg, prev |-> prev]

\* Universe::new(), with the literal 120 of its width and height as `side`
new(side) ==
  /\ width = side
  /\ height = side
  /\ cells \in random(side, side)
  /\ buffer = Fill(side * side, Dead)
  /\ diff = Fill(side * side, Sentinel)
  /\ panicked = FALSE
  /\ overflow_checks \in BOOLEAN

tick ==
  /\ ~panicked
  /\ \E r \in {tick_of(cells, buffer, diff, width, height)} :
       /\ cells' = r.cells
       /\ buffer' = r.buffer
       /\ diff' = r.diff
       /\ panicked' = r.panicked
  /\ UNCHANGED <<width, height, overflow_checks>>

randomize ==
  /\ ~panicked
  /\ cells' \in random(width, height)
  /\ UNCHANGED <<buffer, diff, width, height, panicked, overflow_checks>>

\* clear leaving the cells as they are
clear_skipped ==
  /\ ~panicked
  /\ UNCHANGED <<cells, buffer, diff, width, height, panicked, overflow_checks>>

clear ==
  /\ ~panicked
  /\ \E r \in {Store(cells, [i \in 1..(width * height) |-> i - 1], Dead)} :
       /\ cells' = r.cells
       /\ panicked' = r.panicked
  /\ UNCHANGED <<buffer, diff, width, height, overflow_checks>>

toggle_cell(row, column) ==
  /\ ~panicked
  /\ LET idx == get_index(width, row, column)
     IN IF idx >= Len(cells)
        THEN /\ panicked' = TRUE
             /\ cells' = cells
        ELSE /\ panicked' = FALSE
             /\ cells' = [cells EXCEPT ![idx + 1] = toggle(@)]
  /\ UNCHANGED <<buffer, diff, width, height, overflow_checks>>

set_cells(list) ==
  /\ ~panicked
  /\ \E r \in {Store(cells,
                     [k \in 1..Len(list) |->
                        get_index(width, list[k][1], list[k][2])], Alive)} :
       /\ cells' = r.cells
       /\ panicked' = r.panicked
  /\ UNCHANGED <<buffer, diff, width, height, overflow_checks>>

\* "...".parse().unwrap() followed by insert_pattern
insert_parsed(p, row, column) ==
  /\ ~panicked
  /\ IF ~p.ok
     THEN /\ panicked' = TRUE
          /\ cells' = cells
     ELSE \E r \in {insert_pattern_of(cells, width, height, p, row, column,
                                       overflow_checks)} :
            /\ cells' = r.cells
            /\ panicked' = r.panicked
  /\ UNCHANGED <<buffer, diff, width, height, overflow_checks>>

insert_glider(row, column) == insert_parsed(glider, row, column)

insert_pulsar(row, column) == insert_parsed(pulsar, row, column)

\* set_width resizing the storage in place, the cells kept
set_width_keeping_cells(w) ==
  /\ ~panicked
  /\ width' = w
  /\ cells' = [i \in 1..(w * height) |-> IF i <= Len(cells) THEN cells[i] ELSE Dead]
  /\ UNCHANGED <<buffer, diff, height, panicked, overflow_checks>>

set_width(w) ==
  /\ ~panicked
  /\ width' = w
  /\ cells' = Fill(w * height, Dead)
  /\ UNCHANGED <<buffer, diff, height, panicked, overflow_checks>>

\* set_height sizing the diff to the new grid and clearing it
set_height_resetting_diff(h) ==
  /\ ~panicked
  /\ height' = h
  /\ cells' = Fill(width * h, Dead)
  /\ diff' = Fill(width * h, Sentinel)
  /\ UNCHANGED <<buffer, width, panicked, overflow_checks>>

set_height(h) ==
  /\ ~panicked
  /\ height' = h
  /\ cells' = Fill(width * h, Dead)
  /\ UNCHANGED <<buffer, diff, width, panicked, overflow_checks>>

\* ----------------------------------------------------------- specification
\* Every run of at most MaxOps operations from new().
Init ==
  /\ new(NewSide)
  /\ last = Op("new", <<>>, "")
  /\ ops = 0

Step(name, arg) ==
  /\ ops < MaxOps
  /\ ops' = ops + 1
  /\ last' = Op(name, arg, last.op)

Tick == Step("tick", <<>>) /\ tick

Randomize == Step("randomize", <<>>) /\ randomize

Clear == Step("clear", <<>>) /\ clear

ToggleCell == \E row \in Coords, column \in Coords :
  Step("toggle_cell", <<row, column>>) /\ toggle_cell(row, column)

SetCells == \E list \in SetCellsInputs :
  Step("set_cells", list) /\ set_cells(list)

InsertGlider == \E row \in Coords, column \in Coords :
  Step("insert_glider", <<row, column>>) /\ insert_glider(row, column)

InsertPulsar == \E row \in Coords, column \in Coords :
  Step("insert_pulsar", <<row, column>>) /\ insert_pulsar(row, column)

SetWidth == \E w \in Sizes : Step("set_width", <<w>>) /\ set_width(w)

SetHeight == \E h \in Sizes : Step("set_height", <<h>>) /\ set_height(h)

Next ==
  \/ Tick
  \/ Randomize
  \/ Clear
  \/ ToggleCell
  \/ SetCells
  \/ InsertGlider
  \/ InsertPulsar
  \/ SetWidth
  \/ SetHeight

Spec == Init /\ [][Next]_vars

\* Ticks alone, from every grid of at most NewSide x NewSide cells: the
\* states new(); set_width(w); set_height(h); toggle_cell(..)...;
\* set_cells([]) leave behind.  tick does no arithmetic that the build
\* decides, so one build is explored.
InitTick ==
  /\ \E w \in 1..NewSide, h \in 1..NewSide :
       /\ width = w
       /\ height = h
       /\ cells \in [1..(w * h) -> {Dead, Alive}]
  /\ buffer = Fill(NewSide * NewSide, Dead)
  /\ diff = Fill(NewSide * NewSide, Sentinel)
  /\ panicked = FALSE
  /\ overflow_checks = FALSE
  /\ last = Op("set_cells", <<>>, "toggle_cell")
  /\ ops = 0

TickOnly ==
  /\ tick
  /\ last' = Op("tick", <<>>, last.op)
  /\ UNCHANGED ops

NextTick == TickOnly

SpecTick == InitTick /\ [][NextTick]_vars

\* ------------------------------------------------------------- scenarios
\* A glider at the centre of an all-Dead grid, then four ticks.  last.arg
\* keeps the grid as insert_glider left it, ops counts the ticks.
GliderSizes == {12, 13, GliderSide}

InitGlider ==
  /\ new(GliderSide)
  /\ last = Op("new", <<>>, "")
  /\ ops = 0

GliderSetWidth == \E w \in GliderSizes :
  /\ last.op = "new"
  /\ set_width(w)
  /\ last' = Op("set_width", <<w>>, last.op)
  /\ UNCHANGED ops

GliderSetHeight == \E h \in GliderSizes :
  /\ last.op \in {"new", "set_width"}
  /\ set_height(h)
  /\ last' = Op("set_height", <<h>>, last.op)
  /\ UNCHANGED ops

GliderClear ==
  /\ last.op \in {"new", "set_width", "set_height"}
  /\ clear
  /\ last' = Op("clear", <<>>, last.op)
  /\ UNCHANGED ops

GliderInsert ==
  /\ last.op \in {"set_width", "set_height", "clear"}
  /\ insert_glider(height \div 2, width \div 2)
  /\ last' = Op("insert_glider", SubSeq(cells', 1, width * height), last.op)
  /\ UNCHANGED ops

GliderTick ==
  /\ last.op \in {"insert_glider", "tick"}
  /\ ops < 4
  /\ tick
  /\ last' = Op("tick", last.arg, last.op)
  /\ ops' = ops + 1

NextGlider ==
  \/ GliderSetWidth
  \/ GliderSetHeight
  \/ GliderClear
  \/ GliderInsert
  \/ GliderTick

SpecGlider == InitGlider /\ [][NextGlider]_vars

\* Three cells in a row set on a cleared grid, then two ticks.  last.arg
\* keeps the middle cell, ops counts the ticks.
BlinkerSizes == 5..(BlinkerSide + 1)

InitBlinker ==
  /\ new(BlinkerSide)
  /\ last = Op("new", <<>>, "")
  /\ ops = 0

BlinkerSetWidth == \E w \in BlinkerSizes :
  /\ last.op = "new"
  /\ set_width(w)
  /\ last' = Op("set_width", <<w>>, last.op)
  /\ UNCHANGED ops

BlinkerSetHeight == \E h \in BlinkerSizes :
  /\ last.op \in {"new", "set_width"}
  /\ set_height(h)
  /\ last' = Op("set_height", <<h>>, last.op)
  /\ UNCHANGED ops

BlinkerClear ==
  /\ last.op \in {"new", "set_width", "set_height"}
  /\ clear
  /\ last' = Op("clear", <<>>, last.op)
  /\ UNCHANGED ops

BlinkerSetCells == \E row \in 0..(height - 1), column \in 0..(width - 1) :
  /\ last.op = "clear"
  /\ set_cells(<< <<row, (column + width - 1) % width>>,
                  <<row, column>>,
                  <<row, (column + 1) % width>> >>)
  /\ last' = Op("set_cells", <<row, column>>, last.op)
  /\ UNCHANGED ops

BlinkerTick ==
  /\ last.op \in {"set_cells", "tick"}
  /\ ops < 2
  /\ tick
  /\ last' = Op("tick", last.arg, last.op)
  /\ ops' = ops + 1

NextBlinker ==
  \/ BlinkerSetWidth
  \/ BlinkerSetHeight
  \/ BlinkerClear
  \/ BlinkerSetCells
  \/ BlinkerTick

SpecBlinker == InitBlinker /\ [][NextBlinker]_vars

\* Pattern texts handed to "...".parse::<Pattern>() beside a universe.
\* last.arg keeps the text, last.result what the parser returned.
TextChars == {"O", ".", "!", "\n", "e_acute"}

Texts == UNION {[1..n -> TextChars] : n \in 0..MaxText}

InitParse ==
  /\ new(NewSide)
  /\ last = Op("new", <<>>, "")
  /\ ops = 0

\* str::parse: Pattern::from_str on the text; it holds no Universe
parse(text) ==
  /\ ~panicked
  /\ last' = [op |-> "parse", arg |-> text, prev |-> last.op,
              result |-> from_str(lines(text))]
  /\ UNCHANGED <<cells, buffer, diff, width, height, panicked, overflow_checks, ops>>

Parse == \E text \in Texts : last.op = "new" /\ parse(text)

NextParse == Parse

SpecParse == InitParse /\ [][NextParse]_vars

\* live_neighbor_count on every cell of every grid of at most NewSide x
\* NewSide cells.  last.arg keeps (row, column), last.result the count.
count_neighbors(row, column) ==
  /\ ~panicked
  /\ last' = [op |-> "live_neighbor_count", arg |-> <<row, column>>,
              prev |-> last.op,
              result |-> live_neighbor_count(cells, width, height, row, column)]
  /\ UNCHANGED <<cells, buffer, diff, width, height, panicked, overflow_checks, ops>>

CountNeighbors == \E row \in 0..(height - 1), column \in 0..(width - 1) :
  last.op = "set_cells" /\ count_neighbors(row, column)

NextCount == CountNeighbors

SpecCount == InitTick /\ [][NextCount]_vars

\* The anchor arithmetic of insert_pattern for a target coordinate t, a
\* pattern centre c and a grid extent n, in either build.  last.arg keeps
\* (t, c, n), last.result the outcome.
InitAnchor ==
  /\ new(NewSide)
  /\ last = Op("new", <<>>, "")
  /\ ops = 0

compute_anchor(t, c, n) ==
  /\ ~panicked
  /\ last' = [op |-> "anchor", arg |-> <<t, c, n>>, prev |-> last.op,
              result |-> anchor(t, c, n, overflow_checks)]
  /\ UNCHANGED <<cells, buffer, diff, width, height, panicked, overflow_checks, ops>>

ComputeAnchor == \E n \in 1..MaxExtent, c \in 0..MaxCentre :
  \E t \in 0..(n - 1) : last.op = "new" /\ compute_anchor(t, c, n)

NextAnchor == ComputeAnchor

SpecAnchor == InitAnchor /\ [][NextAnchor]_vars

\* Two universes with the same width, height and grid, ticked side by side.
\* The variables hold one, with a scratch buffer and a diff that earlier
\* ticks left; last.twin holds the other, with both as new() built them.
BufferContents ==
  { Fill(TwinSide * TwinSide, Dead), Fill(TwinSide * TwinSide, Alive),
    [i \in 1..(TwinSide * TwinSide) |-> i % 2] }

DiffContents ==
  { Fill(TwinSide * TwinSide, Sentinel),
    [i \in 1..(TwinSide * TwinSide) |-> i - 1],
    [i \in 1..(TwinSide * TwinSide) |-> IF i = 1 THEN 0 ELSE Sentinel] }

InitTwin ==
  /\ \E w \in 1..TwinSide, h \in 1..TwinSide :
       /\ width = w
       /\ height = h
       /\ cells \in [1..(w * h) -> {Dead, Alive}]
  /\ buffer \in BufferContents
  /\ diff \in DiffContents
  /\ panicked = FALSE
  /\ overflow_checks = FALSE
  /\ last = [op |-> "set_cells", arg |-> <<>>, prev |-> "tick",
             twin |-> [cells |-> cells,
                       buffer |-> Fill(TwinSide * TwinSide, Dead),
                       diff |-> Fill(TwinSide * TwinSide, Sentinel),
                       panicked |-> FALSE]]
  /\ ops = 0

TwinTick ==
  /\ ops < 2
  /\ tick
  /\ last' = [op |-> "tick", arg |-> <<>>, prev |-> last.op,
              twin |-> tick_of(last.twin.cells, last.twin.buffer,
                               last.twin.diff, width, height)]
  /\ ops' = ops + 1

NextTwin == TwinTick

SpecTwin == InitTwin /\ [][NextTwin]_vars

\* -------------------------------------------------------------- properties
\* the grid: the cells (row, col) with row < h and col < w, row-major
Grid(c, w, h) == SubSeq(c, 1, w * h)

\* the cell at (row, col), coordinates taken modulo the grid
CellAt(c, w, h, row, col) == c[((row + h) % h) * w + ((col + w) % w) + 1]

\* the number of live Moore neighbours of (row, col) on the torus
LiveNeighbours(c, w, h, row, col) ==
  CellAt(c, w, h, row - 1, col - 1) + CellAt(c, w, h, row - 1, col)
  + CellAt(c, w, h, row - 1, col + 1) + CellAt(c, w, h, row, col - 1)
  + CellAt(c, w, h, row, col + 1) + CellAt(c, w, h, row + 1, col - 1)
  + CellAt(c, w, h, row + 1, col) + CellAt(c, w, h, row + 1, col + 1)

\* Conway's rule
LifeRule(cell, n) ==
  IF cell = Alive /\ (n < 2 \/ n > 3) THEN Dead
  ELSE IF cell = Alive /\ (n = 2 \/ n = 3) THEN Alive
  ELSE IF cell = Dead /\ n = 3 THEN Alive
  ELSE cell

\* C1: a tick that returns has replaced every cell of the grid by its Game
\* of Life successor, computed from the state and the live-neighbour count
\* of the pre-tick grid.
C1_TickIsOneGeneration ==
  [][(last'.op = "tick" /\ ~panicked') =>
       /\ Len(cells') >= width * height
       /\ \A row \in 0..(height - 1), col \in 0..(width - 1) :
            CellAt(cells', width, height, row, col)
              = LifeRule(CellAt(cells, width, height, row, col),
                         LiveNeighbours(cells, width, height, row, col))]_vars

\* a tick has run on a grid where a cell was born or survived and one changed
C1_Witness ==
  /\ last.op = "tick"
  /\ ~panicked
  /\ width = 3 /\ height = 3
  /\ diff[1] # Sentinel
  /\ \E i \in 1..(width * height) : cells[i] = Alive

\* the entries of a diff buffer before its first -1 (all of it without one)
DiffPrefix(d) ==
  LET ends == {k \in 1..Len(d) : d[k] = Sentinel}
  IN IF ends = {} THEN d
     ELSE SubSeq(d, 1, (CHOOSE k \in ends : \A j \in ends : k <= j) - 1)

\* grid g with exactly the cells listed in pre flipped
Replay(g, pre) ==
  [i \in 1..Len(g) |->
     IF \E k \in 1..Len(pre) : pre[k] = i - 1 THEN toggle(g[i]) ELSE g[i]]

\* C2: when a tick returns, flipping in the pre-tick grid exactly the cells
\* the diff lists before its first -1 gives the post-tick grid.
C2_DiffReplays ==
  [][(last'.op = "tick" /\ ~panicked') =>
       /\ \A k \in 1..Len(DiffPrefix(diff')) :
            DiffPrefix(diff')[k] \in 0..(width * height - 1)
       /\ Replay(Grid(cells, width, height), DiffPrefix(diff'))
            = Grid(cells', width, height)]_vars

\* a tick has run that flipped some cells and left others as they were
C2_Witness ==
  /\ last.op = "tick"
  /\ ~panicked
  /\ Len(DiffPrefix(diff)) \in 1..(width * height - 1)
  /\ width * height > 1

\* C3: after a tick the diff is a strictly increasing run of flat indices of
\* the grid, each the index of a cell this tick changed, followed by -1 in
\* every remaining slot.
C3_DiffShape ==
  [][(last'.op = "tick" /\ ~panicked') =>
       \E n \in 0..Len(diff') :
         /\ \A k \in 1..n :
              /\ diff'[k] \in 0..(width * height - 1)
              /\ At(cells, diff'[k]) # At(cells', diff'[k])
         /\ \A k \in 1..(n - 1) : diff'[k] < diff'[k + 1]
         /\ \A k \in (n + 1)..Len(diff') : diff'[k] = Sentinel]_vars

\* a second tick in a row has run and changed some cells, but fewer than the
\* buffer has slots
C3_Witness ==
  /\ last.op = "tick"
  /\ ~panicked
  /\ Len(cells) < Len(buffer)
  /\ diff[1] # Sentinel
  /\ diff[Len(diff)] = Sentinel

AllDead(c, w, h) == \A i \in 1..(w * h) : c[i] = Dead

\* C4: the current grid storage always holds exactly width * height cells.
C4_CellsLenIsArea == Len(cells) = width * height

Resized(l) == l.op \in {"set_width", "set_height"}

\* C5: the tick that follows a resize completes without an out-of-bounds
\* access and leaves the all-Dead grid all Dead.
C5_TickAfterResize ==
  [][(Resized(last) /\ last'.op = "tick") =>
       (~panicked' /\ Len(cells') >= width * height
        /\ AllDead(cells', width, height))]_vars

\* C6: right after set_width or set_height every cell of the resized grid
\* reads Dead.
C6_ResizeResets ==
  Resized(last) =>
    /\ ~panicked
    /\ Len(cells) >= width * height
    /\ AllDead(cells, width, height)

\* a grid with live cells has been ticked and then resized
C6_Witness ==
  /\ Resized(last)
  /\ last.prev = "tick"
  /\ \E i \in 1..Len(buffer) : buffer[i] = Alive

\* C7: clear leaves every cell Dead, and a tick of an all-Dead grid leaves
\* every cell Dead and every slot of the diff -1; so it is after clear and
\* after any number of ticks following it.
C7_Quiescence ==
  [][/\ last'.op = "clear" =>
          (~panicked' /\ Len(cells') >= width * height
           /\ AllDead(cells', width, height))
     /\ (last'.op = "tick" /\ Len(cells) >= width * height
         /\ AllDead(cells, width, height)) =>
          (/\ Len(cells') >= width * height
           /\ AllDead(cells', width, height)
           /\ \A k \in 1..Len(diff') : diff'[k] = Sentinel)]_vars

\* a grid has been cleared and then ticked
C7_Witness ==
  /\ last.op = "tick"
  /\ last.prev = "clear"
  /\ ~panicked
  /\ AllDead(cells, width, height)
  /\ \A k \in 1..Len(diff) : diff[k] = Sentinel
  /\ ops = MaxOps

Mod(a, n) == ((a % n) + n) % n

\* the grid cell the pattern cell (x, y) lands on when the pattern is
\* anchored at (row - p.width / 2, column - p.height / 2) on a torus of
\* h rows and w columns
Target(p, w, h, row, column, x, y) ==
  <<Mod(row - (p.width \div 2) + x, h), Mod(column - (p.height \div 2) + y, w)>>

PatternCells(p) == {p.alive_cells[k] : k \in 1..Len(p.alive_cells)}

\* the grid after clearing the bounding box and setting the live cells
Inserted(c, w, h, p, row, column) ==
  [i \in 1..(w * h) |->
     LET here == <<(i - 1) \div w, (i - 1) % w>>
         hits == {xy \in (0..(p.width - 1)) \X (0..(p.height - 1)) :
                    Target(p, w, h, row, column, xy[1], xy[2]) = here}
     IN IF hits = {} THEN c[i]
        ELSE IF hits \cap PatternCells(p) # {} THEN Alive ELSE Dead]

PatternOf(l) == IF l.op = "insert_glider" THEN glider ELSE pulsar

\* C8: inserting a pattern at an in-range (row, column) clears its bounding
\* box and sets its live cells, rows wrapped modulo height and columns
\* modulo width, on a grid of any width and height, without a panic.
C8_InsertClearsThenSets ==
  [][(/\ last'.op \in {"insert_glider", "insert_pulsar"}
      /\ last'.arg[1] < height
      /\ last'.arg[2] < width
      /\ Len(cells) = width * height) =>
       (/\ ~panicked'
        /\ cells' = Inserted(cells, width, height, PatternOf(last'),
                             last'.arg[1], last'.arg[2]))]_vars

LiveSet(c, w, h) ==
  {rc \in (0..(h - 1)) \X (0..(w - 1)) : c[rc[1] * w + rc[2] + 1] = Alive}

\* C9: four returned ticks after insert_glider at the centre of an all-Dead
\* grid of 12x12 or more leave alive exactly the inserted live cells moved
\* one row down and one column right.
C9_GliderTranslates ==
  (last.op = "tick" /\ ops = 4 /\ ~panicked) =>
    LiveSet(cells, width, height)
      = {<<(rc[1] + 1) % height, (rc[2] + 1) % width>> :
           rc \in LiveSet(last.arg, width, height)}

\* C10: on a grid of 5x5 or more holding only three cells in a row, the
\* first returned tick leaves alive the three cells in a column through the
\* same middle cell, and the second the three cells in a row again.
C10_BlinkerPeriodTwo ==
  (last.op = "tick" /\ ~panicked) =>
    LET row == last.arg[1]
        column == last.arg[2]
        horizontal == {<<row, (column + width - 1) % width>>,
                       <<row, column>>,
                       <<row, (column + 1) % width>>}
        vertical == {<<(row + height - 1) % height, column>>,
                     <<row, column>>,
                     <<(row + 1) % height, column>>}
    IN /\ ops = 1 => LiveSet(cells, width, height) = vertical
       /\ ops = 2 => LiveSet(cells, width, height) = horizontal

\* the second tick has returned on a grid that is not square, with the three
\* cells across the left and right edge
C10_Witness ==
  /\ last.op = "tick"
  /\ ops = 2
  /\ ~panicked
  /\ width # height
  /\ last.arg[2] = 0
  /\ LiveSet(cells, width, height) # {}

\* where the line holding position p of the text starts
LineStart(text, p) ==
  LET before == {k \in 1..(p - 1) : text[k] = "\n"}
  IN IF before = {} THEN 1
     ELSE (CHOOSE k \in before : \A j \in before : j <= k) + 1

IsCommentAt(text, p) == text[LineStart(text, p)] = "!"

\* the positions of the 'O' characters on lines that do not begin with '!'
LiveMarkers(text) ==
  {p \in 1..Len(text) : text[p] = "O" /\ ~IsCommentAt(text, p)}

\* C11: parsing fails exactly when no line that does not begin with '!' holds
\* an 'O', and a failed parse leaves the Universe as it was.
C11_ParseFailsIffNoLiveCell ==
  [][last'.op = "parse" =>
       /\ last'.result.ok <=> (LiveMarkers(last'.arg) # {})
       /\ ~last'.result.ok =>
            UNCHANGED <<cells, buffer, diff, width, height, panicked>>]_vars

\* a text whose only 'O' stands on a comment line has been refused
C11_Witness ==
  /\ last.op = "parse"
  /\ ~last.result.ok
  /\ \E p \in 1..Len(last.arg) : last.arg[p] = "O"
  /\ \E p \in 1..Len(last.arg) : last.arg[p] = "\n"

\* the row of the character at position p: the lines before it that do not
\* begin with '!'
RowOf(text, p) ==
  Cardinality({k \in 1..(p - 1) : text[k] = "\n" /\ ~IsCommentAt(text, k)})

\* the column of the character at position p: the characters before it on
\* its line
ColumnOf(text, p) == p - LineStart(text, p)

LiveCoordinates(text) ==
  {<<RowOf(text, p), ColumnOf(text, p)>> : p \in LiveMarkers(text)}

SetMax(S) == CHOOSE x \in S : \A y \in S : y <= x

\* C12: a successful parse returns exactly the (i, j) with character j of the
\* i-th line that does not begin with '!' an 'O', and the extents
\* (1 + largest live row, 1 + largest live column).
C12_ParseCoordinates ==
  (last.op = "parse" /\ last.result.ok) =>
    LET live == LiveCoordinates(last.arg)
    IN /\ {last.result.alive_cells[k] : k \in 1..Len(last.result.alive_cells)} = live
       /\ last.result.width = 1 + SetMax({rc[1] : rc \in live})
       /\ last.result.height = 1 + SetMax({rc[2] : rc \in live})

InRange(arg) == arg[1] < height /\ arg[2] < width

\* grid storage c with the cell at flat index idx flipped
Flipped(c, idx) ==
  [i \in 1..Len(c) |->
     IF i = idx + 1 THEN (IF c[i] = Dead THEN Alive ELSE Dead) ELSE c[i]]

\* C13: toggle_cell(row, col) in range flips the cell at row * width + col
\* and nothing else: the other cells, width, height and the diff stay, and
\* the same call once more gives the grid back.
C13_ToggleFlipsOneCell ==
  [][(last'.op = "toggle_cell" /\ InRange(last'.arg)) =>
       LET idx == last'.arg[1] * width + last'.arg[2]
       IN /\ ~panicked'
          /\ cells' = Flipped(cells, idx)
          /\ cells'[idx + 1] # cells[idx + 1]
          /\ Flipped(cells', idx) = cells
          /\ UNCHANGED <<width, height, diff>>]_vars

\* the same kind of call has run twice in a row on a grid that is not square
C13_Witness ==
  /\ last.op = "toggle_cell"
  /\ last.prev = "toggle_cell"
  /\ InRange(last.arg)
  /\ ~panicked
  /\ width # height
  /\ \E i \in 1..(width * height) : cells[i] = Alive

\* C14: the diff buffer always has exactly width * height slots.
C14_DiffCapacityIsArea == Len(diff) = width * height

\* C15: live_neighbor_count(row, col) is the sum over the eight offsets of
\* the cell at ((row + dr) mod height, (col + dc) mod width), a position
\* counted once per offset that lands on it; it lies in 0..8, and the north
\* neighbour of row 0 is row height - 1.
C15_NeighbourCount ==
  last.op = "live_neighbor_count" =>
    LET row == last.arg[1]
        col == last.arg[2]
        offsets == {d \in (-1..1) \X (-1..1) : d # <<0, 0>>}
        landing(d) == Mod(row + d[1], height) * width + Mod(col + d[2], width) + 1
    IN /\ last.result = Cardinality({d \in offsets : cells[landing(d)] = Alive})
       /\ last.result \in 0..8
       /\ row = 0 =>
            neighbor_indices(width, height, row, col)[2] = (height - 1) * width + col
       /\ (width = 1 /\ height = 1) => last.result = 8 * cells[1]

\* the count has been taken on a grid one cell wide or high, where an offset
\* lands on the cell itself, with a live neighbour across the north edge
C15_Witness ==
  /\ last.op = "live_neighbor_count"
  /\ last.arg[1] = 0
  /\ (width = 1 \/ height = 1)
  /\ width * height > 1
  /\ last.result > 2

\* C16: the anchor insert_pattern computes for the target t, the centre c
\* and the grid extent n is (t - c) mod n, with no arithmetic failure.
C16_AnchorIsToroidalWrap ==
  last.op = "anchor" =>
    /\ ~last.result.panicked
    /\ last.result.v = Mod(last.arg[1] - last.arg[2], last.arg[3])

\* the call l names a row or a column outside the grid
OutOfRange(l) ==
  \/ l.op = "toggle_cell" /\ (l.arg[1] >= height \/ l.arg[2] >= width)
  \/ l.op = "set_cells"
       /\ \E k \in 1..Len(l.arg) : l.arg[k][1] >= height \/ l.arg[k][2] >= width

\* C17: the calls of toggle_cell and set_cells with a row or column outside
\* the grid all end the same way: once one of them has returned, the next
\* one does not abort.
C17_OutOfRangeOneKind ==
  [][(OutOfRange(last) /\ ~panicked /\ OutOfRange(last')) => ~panicked']_vars

\* C18: two universes with the same width, height and grid cells have the
\* same grid cells and the same diff after each of an equal number of ticks,
\* whatever their scratch buffers and diffs held before.
C18_NoHiddenState ==
  (last.op = "tick" /\ ~panicked) =>
    /\ ~last.twin.panicked
    /\ SubSeq(cells, 1, width * height) = SubSeq(last.twin.cells, 1, width * height)
    /\ diff = last.twin.diff

\* a tick has changed a cell in universes whose scratch buffers held
\* different cells: the storage behind the grid still differs
C18_Witness ==
  /\ last.op = "tick"
  /\ ~panicked
  /\ cells # last.twin.cells
  /\ diff[1] # Sentinel

Mutators ==
  {"clear", "randomize", "toggle_cell", "set_cells", "insert_glider",
   "insert_pulsar", "set_width", "set_height"}

\* C19: clear, randomize, toggle_cell, set_cells, insert_glider,
\* insert_pulsar, set_width and set_height leave every slot of the diff as
\* the last tick wrote it.
C19_MutatorsKeepDiff ==
  [][last'.op \in Mutators => diff' = diff]_vars

\* a resize has run right after a tick that changed cells
C19_Witness ==
  /\ last.op \in {"set_width", "set_height"}
  /\ last.prev = "tick"
  /\ diff[1] # Sentinel
  /\ width * height # Len(diff)
====
